---- MODULE Spec2Model ----
(***************************************************************************)
(* Device-fleet orchestration core of PhoneAgent: the port allocator       *)
(* (server/services/port_manager.py) and the hybrid job store + scheduler  *)
(* (server/services/agent_service.py).                                     *)
(*                                                                         *)
(* PortSpec is the port allocator driven by arbitrary calls.               *)
(* Spec     is the job store / scheduler: API calls, the per-job execution *)
(*          coroutine, the executor threads and process restart.           *)
(* ListSpec is the listing of historical jobs applied to bounded tables.   *)
(* ScanSpec is the Active Scanner (server/services/device_scanner.py)      *)
(*          sharing the port allocator with another client.                *)
(* RegSpec  is the Passive Registry (server/websocket/server.py): the      *)
(*          connection handlers and the DeviceManager they share.          *)
(***************************************************************************)
EXTENDS Integers, Sequences, FiniteSets, TLC

(***************************************************************************)
(* Universe of the port allocator                                          *)
(***************************************************************************)
LeaseDevices == {"A", "B", "C"}
Ports == {7001, 7002, 7003}
NoDevice == "none"
NoPort == 0
MaxTime == 2
MaxAges == {0, 1}

VARIABLES
    port_allocations,   \* PortManager.port_allocations: port -> [device_id, allocated_at]
    device_ports,       \* PortManager.device_ports: device_id -> port
    now,                \* datetime.now() as seen by the port manager
    last_call,           \* the last PortManager call: arguments, result, tables before it
    fresh               \* history: the port its holder re-acquired at the present time

portVars == <<port_allocations, device_ports, now, last_call, fresh>>

(***************************************************************************)
(* Universe of the job store and scheduler                                 *)
(***************************************************************************)
TaskOrder == <<"t1", "t2">>             \* task ids, in the order they are created
TaskIds == {TaskOrder[i] : i \in 1..Len(TaskOrder)}
PoolOrder == <<"d1", "d2">>             \* devices of the pool, in iteration order
PoolDevices == {PoolOrder[i] : i \in 1..Len(PoolOrder)}
Pins == {PoolOrder[1], NoDevice}        \* device_id arguments of create_task
NoTaskId == "none"
MaxSteps == 2                           \* AgentConfig.max_steps of every job
MaxDbFailures == 1                      \* durable writes that may raise
MaxInputs == 5                          \* API calls, Worker returns and restarts
LiveInputs == 4                         \* inputs of the behaviours checked for liveness
ListLimit == 1                          \* rows one crud.list_tasks query returns

Terminal == {"completed", "failed", "cancelled"}
StepOutcomes == {"ok_cont", "ok_final", "fail_cont", "fail_final", "error_final", "raise"}
Suspended == {"await_step", "await_bcast", "await_rule_bcast", "await_compound_bcast",
              "await_done_bcast"}

VARIABLES
    task,            \* the Task objects: status, device_id, steps, result, error
    running_tasks,   \* AgentService.running_tasks (Hot Tier): ids of the tasks it holds
    db,              \* the tasks table (Durable Tier)
    handles,         \* AgentService._running_task_handles: ids with an asyncio handle
    lock,            \* AgentService._lock: the call that holds it
    pc_create,       \* position of create_task, per task
    pc_exec,         \* position of execute_task, per task
    pc_cancel,       \* position of cancel_task, per task
    snap,            \* the field values the persist thread of cancel_task has read
    pc_run,          \* position of the _run_agent coroutine, per task
    must_cancel,     \* asyncio.Task.cancel() was called and not yet delivered
    step_index,      \* step_index of the execution loop
    wk,              \* the executor thread running agent.step, and its outcome
    dev,             \* DevicePool: status and bound task of each device
    ret_start,       \* what the last execute_task call returned
    ret_cancel,      \* what the last cancel_task call returned
    db_failures,     \* durable writes that raised so far
    restarts,        \* restarts so far
    cutoff,          \* rows created before the cutoff of the latest recover_tasks
    inputs           \* API calls, Worker returns and restarts so far

svcVars == <<task, running_tasks, db, handles, lock>>
callVars == <<pc_create, pc_exec, pc_cancel, snap, ret_start, ret_cancel>>
runVars == <<pc_run, must_cancel, step_index, wk>>
envVars == <<dev, db_failures, restarts, cutoff, inputs>>
jobVars == <<svcVars, callVars, runVars, envVars>>

(***************************************************************************)
(* Universe of the historical listing                                      *)
(***************************************************************************)
MaxRows == 2                            \* rows one listing call reads
StatusTexts == {"pending", "completed", "INVALID_STATUS_ENUM"}
JsonTexts == {"null", "valid", "invalid"}
Rows == [status : StatusTexts, model_config : JsonTexts, steps_detail : JsonTexts]
NotListed == [outcome |-> "not called", tasks |-> <<>>]
Raised == [outcome |-> "raised", tasks |-> <<>>]

VARIABLES
    list_rows,       \* what crud.list_tasks returns: a sequence of rows
    listing          \* what _list_tasks_from_db returned or raised

listVars == <<list_rows, listing>>

(***************************************************************************)
(* Universe of the Active Scanner (server/services/device_scanner.py)      *)
(***************************************************************************)
port_range_start == 7001                \* DeviceScanner.port_range_start
port_range_end == 7003                  \* DeviceScanner.port_range_end
batch_size == 2                         \* ports probed concurrently by one gather
MaxPasses == 3                          \* scan passes of one behaviour
ForeignDevices == {"A"}                 \* another client of the PortManager
NotScanning == -1

VARIABLES
    devices,         \* DeviceScanner.devices: device_id -> [frp_port, is_online]
    port_to_device,  \* DeviceScanner.port_to_device: port -> device_id
    scanning,        \* offset of the batch scan_once gathers next, or NotScanning
    found_devices,   \* found_devices of the running pass
    scan_log,        \* history: the allocate_port calls of the present pass
    passes           \* history: passes started

scanVars == <<devices, port_to_device, scanning, found_devices, scan_log, passes>>

(***************************************************************************)
(* Universe of the Passive Registry (server/websocket/server.py)           *)
(***************************************************************************)
MaxConns == 2                           \* WebSocket connections of one behaviour
Conns == 1..MaxConns
RegPorts == {7001, 7002}                \* frp_port of the /ws/device/{frp_port} calls
RegTasks == TaskIds                     \* task ids given to assign_task, each once

VARIABLES
    dm_devices,      \* DeviceManager.devices, in insertion order: DeviceInfo records
    connections,     \* DeviceManager.connections: device_id -> WebSocket
    device_tasks,    \* DeviceManager.device_tasks: device_id -> set of task ids
    pc_conn,         \* position of device_websocket, per connection
    conn_port,       \* frp_port of the connection's URL
    conn_frp,        \* frp_connected as register_device found it, per connection
    in_flight,       \* history: tasks assign_task added and complete_task has not ended
    ended            \* history: tasks complete_task was called for

regVars == <<dm_devices, connections, device_tasks, pc_conn, conn_port, conn_frp,
             in_flight, ended>>

extVars == <<listVars, scanVars, regVars>>

vars == <<portVars, jobVars, extVars>>

(***************************************************************************)
(* Dict helpers                                                            *)
(***************************************************************************)
DictDel(f, k) == [x \in (DOMAIN f) \ {k} |-> f[x]]

DictSet(f, k, v) == [x \in (DOMAIN f) \cup {k} |-> IF x = k THEN v ELSE f[x]]

(***************************************************************************)
(* PortManager                                                             *)
(***************************************************************************)
\* Mutation of release_port_internal: the owner's device_ports entry is kept.
release_port_internal_keeps_device(pa, dp, port) ==
    IF port \in DOMAIN pa
    THEN [ok |-> TRUE, pa |-> DictDel(pa, port), dp |-> dp]
    ELSE [ok |-> FALSE, pa |-> pa, dp |-> dp]

\* _release_port_internal(port): drop the port's allocation and its owner's
\* device_ports entry; the result says whether anything was released.
release_port_internal(pa, dp, port) ==
    IF port \in DOMAIN pa
    THEN LET device_id == pa[port].device_id
         IN  [ok |-> TRUE,
              pa |-> DictDel(pa, port),
              dp |-> IF device_id \in DOMAIN dp THEN DictDel(dp, device_id) ELSE dp]
    ELSE [ok |-> FALSE, pa |-> pa, dp |-> dp]

\* The final binding of allocate_port (lines 88-97).
bind_port(pa, dp, device_id, port, t) ==
    [ok |-> TRUE,
     pa |-> DictSet(pa, port, [device_id |-> device_id, allocated_at |-> t]),
     dp |-> DictSet(dp, device_id, port)]

\* Mutation of release_old_port: the previous lease is left in place.
release_old_port_skipped(pa, dp, device_id) ==
    [ok |-> FALSE, pa |-> pa, dp |-> dp]

\* The device's previous lease on another port is released first (lines 56-64).
release_old_port(pa, dp, device_id) ==
    IF device_id \in DOMAIN dp
    THEN release_port_internal(pa, dp, dp[device_id])
    ELSE [ok |-> FALSE, pa |-> pa, dp |-> dp]

\* Mutation of resolve_occupied: a forced allocation overwrites the port's
\* entry without releasing the holder first.
resolve_occupied_no_kick(pa, dp, device_id, port, force, t) ==
    IF port \in DOMAIN pa /\ ~force
    THEN [ok |-> FALSE, pa |-> pa, dp |-> dp]
    ELSE bind_port(pa, dp, device_id, port, t)

\* Occupied port: kick the holder out when forced, else refuse (lines 66-86).
resolve_occupied(pa, dp, device_id, port, force, t) ==
    IF port \in DOMAIN pa
    THEN IF force
         THEN LET r == release_port_internal(pa, dp, port)
              IN  bind_port(r.pa, r.dp, device_id, port, t)
         ELSE [ok |-> FALSE, pa |-> pa, dp |-> dp]
    ELSE bind_port(pa, dp, device_id, port, t)

\* allocate_port(device_id, requested_port, force) at time t.
allocate_port_result(pa, dp, device_id, port, force, t) ==
    IF device_id \in DOMAIN dp /\ dp[device_id] = port
    THEN [ok |-> TRUE, pa |-> pa, dp |-> dp]
    ELSE LET r == release_old_port(pa, dp, device_id)
         IN  resolve_occupied(r.pa, r.dp, device_id, port, force, t)

\* Mutation of release_port_result: a device without a lease reports success.
release_port_result_always_true(pa, dp, device_id, port) ==
    IF device_id # NoDevice
    THEN IF device_id \notin DOMAIN dp
         THEN [ok |-> TRUE, pa |-> pa, dp |-> dp]
         ELSE release_port_internal(pa, dp, dp[device_id])
    ELSE IF port # NoPort
         THEN release_port_internal(pa, dp, port)
         ELSE [ok |-> FALSE, pa |-> pa, dp |-> dp]

\* release_port(device_id=..., port=...): device_id wins when both are given.
release_port_result(pa, dp, device_id, port) ==
    IF device_id # NoDevice
    THEN IF device_id \notin DOMAIN dp
         THEN [ok |-> FALSE, pa |-> pa, dp |-> dp]
         ELSE release_port_internal(pa, dp, dp[device_id])
    ELSE IF port # NoPort
         THEN release_port_internal(pa, dp, port)
         ELSE [ok |-> FALSE, pa |-> pa, dp |-> dp]

\* The ports cleanup_stale_allocations(max_age) collects at time t.
stale_ports(pa, max_age, t) ==
    {p \in DOMAIN pa : t - pa[p].allocated_at > max_age}

RECURSIVE release_all(_, _, _)
release_all(pa, dp, ports) ==
    IF ports = {}
    THEN [ok |-> TRUE, pa |-> pa, dp |-> dp]
    ELSE LET p == CHOOSE q \in ports : TRUE
             r == release_port_internal(pa, dp, p)
         IN  release_all(r.pa, r.dp, ports \ {p})

cleanup_stale_result(pa, dp, max_age, t) ==
    release_all(pa, dp, stale_ports(pa, max_age, t))

\* get_port_status(port) / get_device_port(device_id)
get_port_status(port) ==
    IF port \in DOMAIN port_allocations THEN port_allocations[port].device_id ELSE NoDevice

get_device_port(device_id) ==
    IF device_id \in DOMAIN device_ports THEN device_ports[device_id] ELSE NoPort

\* No call made yet.
NoCall ==
    [op |-> "none", device |-> NoDevice, port |-> NoPort, force |-> FALSE, ok |-> FALSE,
     pre_pa |-> <<>>, pre_dp |-> <<>>, again |-> FALSE, prev_ok |-> FALSE]

\* again: the call repeats the previous call (same operation, same arguments);
\* prev_ok: what that previous call returned.

Record(op, device, port, force, r) ==
    [op |-> op, device |-> device, port |-> port, force |-> force, ok |-> r.ok,
     pre_pa |-> port_allocations, pre_dp |-> device_ports,
     again |-> (last_call.op = op /\ last_call.device = device /\ last_call.port = port
                /\ last_call.force = force),
     prev_ok |-> last_call.ok]

\* The recorded re-acquire, forgotten once its lease is gone or replaced.
KeptRefresh(pa) ==
    IF /\ fresh \in DOMAIN pa
       /\ fresh \in DOMAIN port_allocations
       /\ pa[fresh] = port_allocations[fresh]
    THEN fresh
    ELSE NoPort

PortInit ==
    /\ port_allocations = <<>>
    /\ device_ports = <<>>
    /\ now = 0
    /\ last_call = NoCall
    /\ fresh = NoPort

allocate_port(device_id, port, force) ==
    LET r == allocate_port_result(port_allocations, device_ports, device_id, port, force, now)
    IN  /\ port_allocations' = r.pa
        /\ device_ports' = r.dp
        /\ last_call' = Record("allocate", device_id, port, force, r)
        /\ fresh' = IF device_id \in DOMAIN device_ports /\ device_ports[device_id] = port
                    THEN port
                    ELSE KeptRefresh(r.pa)
        /\ UNCHANGED <<now, jobVars, extVars>>

release_port(device_id, port) ==
    LET r == release_port_result(port_allocations, device_ports, device_id, port)
    IN  /\ port_allocations' = r.pa
        /\ device_ports' = r.dp
        /\ last_call' = Record("release", device_id, port, FALSE, r)
        /\ fresh' = KeptRefresh(r.pa)
        /\ UNCHANGED <<now, jobVars, extVars>>

cleanup_stale_allocations(max_age) ==
    LET r == cleanup_stale_result(port_allocations, device_ports, max_age, now)
    IN  /\ port_allocations' = r.pa
        /\ device_ports' = r.dp
        /\ last_call' = Record("cleanup", NoDevice, NoPort, FALSE, r)
        /\ fresh' = KeptRefresh(r.pa)
        /\ UNCHANGED <<now, jobVars, extVars>>

\* Wall-clock time passes between calls.
Tick ==
    /\ now < MaxTime
    /\ now' = now + 1
    /\ fresh' = NoPort
    /\ UNCHANGED <<port_allocations, device_ports, last_call, jobVars, extVars>>



\* Task(...) before create_task built it / after the process lost it.
NoTask ==
    [status |-> "absent", device_id |-> NoDevice, steps |-> <<>>,
     result |-> "none", error |-> "none"]

\* No row in the tasks table.
NoRec ==
    [status |-> "absent", has_steps |-> FALSE, steps_detail |-> <<>>,
     result |-> "none", error |-> "none"]

FreeLock == [op |-> "none", t |-> NoTaskId]

FreeDevice == [status |-> "online", task |-> NoTaskId]
OfflineDevice == [status |-> "offline", task |-> NoTaskId]

\* The pools Discovery can hand to the service when it restarts: every device
\* is known and none is bound; the devices after the first may be unreachable.
DiscoveredPools ==
    {pool \in [PoolDevices -> {FreeDevice, OfflineDevice}] : pool[PoolOrder[1]] = FreeDevice}

(***************************************************************************)
(* Durable Tier (server/database/crud.py)                                  *)
(***************************************************************************)
\* crud.create_task: a new row; status takes the column default "pending".
crud_create_task(tk) ==
    [status |-> "pending", has_steps |-> FALSE, steps_detail |-> <<>>,
     result |-> "none", error |-> "none"]

\* crud.update_task with the fields AgentService writes: an UPDATE of the row
\* with that task_id (no row, no effect).
crud_update_task(rec, tk) ==
    IF rec.status = "absent"
    THEN rec
    ELSE [rec EXCEPT !.status = tk.status, !.has_steps = TRUE, !.steps_detail = tk.steps,
                     !.result = tk.result, !.error = tk.error]

\* crud.update_task(status="running", started_at=...) of execute_task.
crud_update_status(rec, status) ==
    IF rec.status = "absent" THEN rec ELSE [rec EXCEPT !.status = status]

\* _persist_task_to_db._persist: update the row when it exists, else create it.
persist_task_to_db(rec, tk) ==
    IF rec.status # "absent" THEN crud_update_task(rec, tk) ELSE crud_create_task(tk)

\* The result column is text: the dict the rule-engine path stores in
\* task.result cannot be bound and the write raises.
DbAccepts(tk) == tk.result # "dict"

\* The outcomes a durable write may have now.
DbOutcomes == IF db_failures < MaxDbFailures THEN {TRUE, FALSE} ELSE {TRUE}

CountFailure(ok) == db_failures' = IF ok THEN db_failures ELSE db_failures + 1

\* _get_task_from_db: the Task rebuilt from a row (steps from steps_detail, [] when null).
get_task_from_db(rec) ==
    IF rec.status = "absent"
    THEN NoTask
    ELSE [status |-> rec.status, device_id |-> NoDevice,
          steps |-> IF rec.has_steps THEN rec.steps_detail ELSE <<>>,
          result |-> rec.result, error |-> rec.error]

\* get_task_async: Hot Tier first, Durable Tier as the fallback.
get_task_async(t) ==
    IF t \in running_tasks THEN task[t] ELSE get_task_from_db(db[t])

\* list_tasks(): the tasks of the Hot Tier.
list_tasks == running_tasks

\* recover_tasks for one row: a running row is an orphan, a pending row
\* created before the one-hour cutoff timed out.
recover_task(rec, before_cutoff) ==
    IF rec.status = "running"
    THEN [rec EXCEPT !.status = "failed", !.error = "Task flow interrupted (server restart)"]
    ELSE IF rec.status = "pending" /\ before_cutoff
         THEN [rec EXCEPT !.status = "failed", !.error = "Task timeout (stale pending)"]
         ELSE rec

(***************************************************************************)
(* DevicePool (server/services/device_pool.py)                             *)
(***************************************************************************)
RECURSIVE first_fit(_, _)
first_fit(pool, i) ==
    IF i > Len(PoolOrder)
    THEN NoDevice
    ELSE IF pool[PoolOrder[i]].status = "online" /\ pool[PoolOrder[i]].task = NoTaskId
         THEN PoolOrder[i]
         ELSE first_fit(pool, i + 1)

\* get_available_device(): the first Online device with no bound job.
get_available_device(pool) == first_fit(pool, 1)

\* assign_task(device_id, task_id): bind the device, Online -> Busy.
assign_task(pool, d, t) == [pool EXCEPT ![d] = [status |-> "busy", task |-> t]]

\* complete_task(device_id, success): release the device, Busy -> Online.
complete_task(pool, d) ==
    IF d \in PoolDevices /\ pool[d].status = "busy" THEN [pool EXCEPT ![d] = FreeDevice] ELSE pool

(***************************************************************************)
(* AgentService                                                            *)
(***************************************************************************)
JobInit ==
    /\ task = [t \in TaskIds |-> NoTask]
    /\ running_tasks = {}
    /\ db = [t \in TaskIds |-> NoRec]
    /\ handles = {}
    /\ lock = FreeLock
    /\ pc_create = [t \in TaskIds |-> "idle"]
    /\ pc_exec = [t \in TaskIds |-> "idle"]
    /\ pc_cancel = [t \in TaskIds |-> "idle"]
    /\ snap = [t \in TaskIds |-> NoTask]
    /\ pc_run = [t \in TaskIds |-> "none"]
    /\ must_cancel = [t \in TaskIds |-> FALSE]
    /\ step_index = [t \in TaskIds |-> 0]
    /\ wk = [t \in TaskIds |-> "idle"]
    /\ dev = [d \in PoolDevices |-> FreeDevice]
    /\ ret_start = [t \in TaskIds |-> "none"]
    /\ ret_cancel = [t \in TaskIds |-> "none"]
    /\ db_failures = 0
    /\ restarts = 0
    /\ cutoff = {}
    /\ inputs = 0

(***************************************************************************)
(* _list_tasks_from_db                                                     *)
(***************************************************************************)
\* json.loads(text): a parsed value, or JSONDecodeError.
json_loads(text) == IF text = "valid" THEN "parsed" ELSE "JSONDecodeError"

\* 'json.loads(column) if column else default' (lines 1638-1640, 1660).
load_json_column(text, default) == IF text = "null" THEN default ELSE json_loads(text)

\* TaskStatus(value) (line 1642): the member with that value, or ValueError.
TaskStatus(value) ==
    IF value \in {"pending", "running", "completed", "failed", "cancelled"}
    THEN value
    ELSE "ValueError"

\* The body of the for loop of _list (lines 1633-1662) for one row.
load_row(row) ==
    [status |-> TaskStatus(row.status),
     model_config |-> load_json_column(row.model_config, "None"),
     steps |-> load_json_column(row.steps_detail, "[]")]

row_raises(row) ==
    \/ load_row(row).status = "ValueError"
    \/ load_row(row).model_config = "JSONDecodeError"
    \/ load_row(row).steps = "JSONDecodeError"

\* _list_tasks_from_db (lines 1620-1668): no exception is caught inside
\* _list, so the first row that raises ends the call.
list_tasks_from_db(rs) ==
    IF \E i \in 1..Len(rs) : row_raises(rs[i])
    THEN Raised
    ELSE [outcome |-> "returned", tasks |-> [i \in 1..Len(rs) |-> load_row(rs[i])]]

ListInit0 ==
    /\ list_rows = <<>>
    /\ listing = NotListed

\* The tables a listing may find.
Tables == UNION {[1..n -> Rows] : n \in 1..MaxRows}

call_list_tasks_from_db ==
    /\ listing = NotListed
    /\ listing' = list_tasks_from_db(list_rows)
    /\ UNCHANGED <<list_rows, portVars, jobVars, scanVars, regVars>>

(***************************************************************************)
(* DeviceScanner                                                           *)
(***************************************************************************)
\* generate_device_id(frp_port): "device_{frp_port}".
generate_device_id(frp_port) ==
    CASE frp_port = 7001 -> "device_7001"
      [] frp_port = 7002 -> "device_7002"
      [] OTHER -> "device_7003"

\* ports[i : i + batch_size] of list(range(port_range_start, port_range_end + 1)).
batch(i) ==
    LET first == port_range_start + i
        n == IF first + batch_size - 1 <= port_range_end
             THEN batch_size
             ELSE port_range_end - first + 1
    IN  [j \in 1..n |-> first + j - 1]

\* The results of one gather that are not None, in the order of the ports.
results(i, responding) == SelectSeq(batch(i), LAMBDA p : p \in responding)

ScannedDevice(port) == [frp_port |-> port, is_online |-> TRUE]

\* Mutation of first_sighting: the device is registered although the lease
\* was refused.
first_sighting_ignores_refusal(s, port, device_id, t) ==
    LET r == allocate_port_result(s.pa, s.dp, device_id, port, FALSE, t)
        entry == [port |-> port, device_id |-> device_id, ok |-> r.ok,
                  unchanged |-> (r.pa = s.pa /\ r.dp = s.dp)]
    IN  [s EXCEPT !.pa = r.pa, !.dp = r.dp,
                  !.devices = DictSet(s.devices, device_id, ScannedDevice(port)),
                  !.port_to_device = DictSet(s.port_to_device, port, device_id),
                  !.log = Append(s.log, entry)]

\* A device_id not in self.devices (lines 325-381): lease the port; on refusal
\* go on with the next result, else add the device.
first_sighting(s, port, device_id, t) ==
    LET r == allocate_port_result(s.pa, s.dp, device_id, port, FALSE, t)
        entry == [port |-> port, device_id |-> device_id, ok |-> r.ok,
                  unchanged |-> (r.pa = s.pa /\ r.dp = s.dp)]
    IN  IF ~r.ok
        THEN [s EXCEPT !.pa = r.pa, !.dp = r.dp, !.log = Append(s.log, entry)]
        ELSE [s EXCEPT !.pa = r.pa, !.dp = r.dp,
                       !.devices = DictSet(s.devices, device_id, ScannedDevice(port)),
                       !.port_to_device = DictSet(s.port_to_device, port, device_id),
                       !.log = Append(s.log, entry)]

\* A device_id already in self.devices (lines 383-391).
seen_again(s, device_id) ==
    [s EXCEPT !.devices = DictSet(s.devices, device_id,
                                  [s.devices[device_id] EXCEPT !.is_online = TRUE])]

\* The body of 'for result in results' (lines 313-391) for one result.
process_result(s, port, t) ==
    LET device_id == generate_device_id(port)
        s1 == [s EXCEPT !.found = s.found \cup {device_id}]
    IN  IF device_id \notin DOMAIN s.devices
        THEN first_sighting(s1, port, device_id, t)
        ELSE seen_again(s1, device_id)

RECURSIVE process_results(_, _, _)
process_results(s, rs, t) ==
    IF rs = <<>>
    THEN s
    ELSE process_results(process_result(s, Head(rs), t), Tail(rs), t)

\* One device of the final loop (lines 394-403): not found in this pass and
\* online: mark it offline, release its lease, forget its port.
mark_offline(s, device_id) ==
    LET device == s.devices[device_id]
        r == release_port_result(s.pa, s.dp, device_id, NoPort)
    IN  [s EXCEPT !.pa = r.pa, !.dp = r.dp,
                  !.devices = DictSet(s.devices, device_id,
                                      [device EXCEPT !.is_online = FALSE]),
                  !.port_to_device = IF device.frp_port \in DOMAIN s.port_to_device
                                     THEN DictDel(s.port_to_device, device.frp_port)
                                     ELSE s.port_to_device]

RECURSIVE mark_all_offline(_, _)
mark_all_offline(s, ds) ==
    IF ds = {}
    THEN s
    ELSE LET d == CHOOSE x \in ds : TRUE
         IN  mark_all_offline(mark_offline(s, d), ds \ {d})

mark_missing_offline(s) ==
    mark_all_offline(s, {d \in DOMAIN s.devices : d \notin s.found /\ s.devices[d].is_online})

\* get_online_devices()
get_online_devices == {d \in DOMAIN devices : devices[d].is_online}

ScanInit0 ==
    /\ devices = <<>>
    /\ port_to_device = <<>>
    /\ scanning = NotScanning
    /\ found_devices = {}
    /\ scan_log = <<>>
    /\ passes = 0

\* scan_once up to its first gather (lines 275-310).
scan_once_start ==
    /\ scanning = NotScanning
    /\ passes < MaxPasses
    /\ scanning' = 0
    /\ found_devices' = {}
    /\ scan_log' = <<>>
    /\ passes' = passes + 1
    /\ UNCHANGED <<devices, port_to_device, portVars, jobVars, listVars, regVars>>

\* One gather returns with the ports that answered; its results are handled
\* without suspension, and after the last batch the missing devices are
\* marked offline (lines 310-406).
scan_batch(responding) ==
    /\ scanning # NotScanning
    /\ LET s0 == [pa |-> port_allocations, dp |-> device_ports, devices |-> devices,
                  port_to_device |-> port_to_device, found |-> found_devices,
                  log |-> scan_log]
           s1 == process_results(s0, results(scanning, responding), now)
           last == port_range_start + scanning + batch_size > port_range_end
           s2 == IF last THEN mark_missing_offline(s1) ELSE s1
       IN  /\ port_allocations' = s2.pa
           /\ device_ports' = s2.dp
           /\ devices' = s2.devices
           /\ port_to_device' = s2.port_to_device
           /\ found_devices' = s2.found
           /\ scan_log' = s2.log
           /\ scanning' = IF last THEN NotScanning ELSE scanning + batch_size
    /\ UNCHANGED <<now, last_call, fresh, passes, jobVars, listVars, regVars>>

\* Another client of the PortManager asks for a port, not forced.
foreign_allocate_port(device_id, port) ==
    LET r == allocate_port_result(port_allocations, device_ports, device_id, port, FALSE, now)
    IN  /\ port_allocations' = r.pa
        /\ device_ports' = r.dp
        /\ UNCHANGED <<now, last_call, fresh, jobVars, extVars>>

\* Another client of the PortManager gives its port back.
foreign_release_port(device_id) ==
    LET r == release_port_result(port_allocations, device_ports, device_id, NoPort)
    IN  /\ device_id \in DOMAIN device_ports
        /\ port_allocations' = r.pa
        /\ device_ports' = r.dp
        /\ UNCHANGED <<now, last_call, fresh, jobVars, extVars>>

ScanNext ==
    \/ scan_once_start
    \/ \E responding \in SUBSET Ports : scan_batch(responding)
    \/ \E d \in ForeignDevices, p \in Ports : foreign_allocate_port(d, p)
    \/ \E d \in ForeignDevices : foreign_release_port(d)

(***************************************************************************)
(* DeviceManager and the device_websocket endpoint                         *)
(***************************************************************************)
\* device_id = f"device_{frp_port}" (line 293).
ws_device_id(frp_port) == generate_device_id(frp_port)

RegDeviceIds == {ws_device_id(p) : p \in RegPorts}

\* device_id in self.devices / self.devices[device_id]
known(ds, device_id) == \E i \in 1..Len(ds) : ds[i].device_id = device_id

index_of(ds, device_id) == CHOOSE i \in 1..Len(ds) : ds[i].device_id = device_id

\* The status of the record, "absent" when there is none.
status_of(ds, device_id) ==
    IF known(ds, device_id) THEN ds[index_of(ds, device_id)].status ELSE "absent"

\* The critical section of register_device (lines 86-134).
register_device_result(ds, device_id, frp_connected) ==
    IF known(ds, device_id)
    THEN [ds EXCEPT ![index_of(ds, device_id)] =
              [@ EXCEPT !.status = "online", !.frp_connected = frp_connected,
                        !.ws_connected = TRUE]]
    ELSE Append(ds, [device_id |-> device_id, status |-> "online",
                     frp_connected |-> frp_connected, ws_connected |-> TRUE])

\* self.devices[device_id].status = status
set_status(ds, device_id, status) ==
    IF known(ds, device_id)
    THEN [ds EXCEPT ![index_of(ds, device_id)] = [@ EXCEPT !.status = status]]
    ELSE ds

\* unregister_device (lines 164-177) on the three tables.
unregister_result(ds, cs, ts, device_id) ==
    [connections |-> IF device_id \in DOMAIN cs THEN DictDel(cs, device_id) ELSE cs,
     devices |-> IF known(ds, device_id)
                 THEN [ds EXCEPT ![index_of(ds, device_id)] =
                           [@ EXCEPT !.status = "offline", !.ws_connected = FALSE]]
                 ELSE ds,
     device_tasks |-> IF device_id \in DOMAIN ts THEN DictDel(ts, device_id) ELSE ts]

\* DeviceManager.get_available_device(): the first record, in insertion order, that is
\* online, has its FRP port listening and has no task; None otherwise.
available(rec) ==
    /\ rec.status = "online"
    /\ rec.frp_connected
    /\ (IF rec.device_id \in DOMAIN device_tasks THEN device_tasks[rec.device_id] ELSE {}) = {}

dm_get_available_device ==
    IF \E i \in 1..Len(dm_devices) : available(dm_devices[i])
    THEN LET i == CHOOSE k \in 1..Len(dm_devices) :
                      /\ available(dm_devices[k])
                      /\ \A j \in 1..(k - 1) : ~available(dm_devices[j])
         IN  dm_devices[i].device_id
    ELSE NoDevice

RegInit0 ==
    /\ dm_devices = <<>>
    /\ connections = <<>>
    /\ device_tasks = <<>>
    /\ pc_conn = [c \in Conns |-> "new"]
    /\ conn_port = [c \in Conns |-> NoPort]
    /\ conn_frp = [c \in Conns |-> FALSE]
    /\ in_flight = [d \in RegDeviceIds |-> {}]
    /\ ended = {}

\* device_websocket up to the await inside register_device (lines 268-297,
\* 79-84): the connection is accepted and announces itself.
device_online(c, frp_port) ==
    /\ pc_conn[c] = "new"
    /\ \A b \in Conns : b < c => pc_conn[b] # "new"
    /\ pc_conn' = [pc_conn EXCEPT ![c] = "checking"]
    /\ conn_port' = [conn_port EXCEPT ![c] = frp_port]
    /\ UNCHANGED <<dm_devices, connections, device_tasks, conn_frp, in_flight, ended,
                   portVars, jobVars, listVars, scanVars>>

\* _is_frp_port_listening returned; register_device runs its critical
\* section (lines 84-134) and the endpoint awaits the confirmation send.
register_device(c, frp_connected) ==
    LET device_id == ws_device_id(conn_port[c])
    IN  /\ pc_conn[c] = "checking"
        /\ connections' = DictSet(connections, device_id, c)
        /\ dm_devices' = register_device_result(dm_devices, device_id, frp_connected)
        /\ device_tasks' = IF device_id \notin DOMAIN device_tasks
                           THEN DictSet(device_tasks, device_id, {})
                           ELSE device_tasks
        /\ conn_frp' = [conn_frp EXCEPT ![c] = frp_connected]
        /\ pc_conn' = [pc_conn EXCEPT ![c] = "ack"]
        /\ UNCHANGED <<conn_port, in_flight, ended, portVars, jobVars, listVars, scanVars>>

\* The confirmation was sent (lines 300-315): the message loop starts.
registered_sent(c) ==
    /\ pc_conn[c] = "ack"
    /\ pc_conn' = [pc_conn EXCEPT ![c] = "loop"]
    /\ UNCHANGED <<dm_devices, connections, device_tasks, conn_port, conn_frp, in_flight, ended,
                   portVars, jobVars, listVars, scanVars>>

\* complete_task(device_id, task_id) (lines 235-243) on the tables.
complete_task_result(ds, ts, device_id, task_id) ==
    IF device_id \in DOMAIN ts
    THEN [device_tasks |-> [ts EXCEPT ![device_id] = @ \ {task_id}],
          devices |-> IF ts[device_id] \ {task_id} = {}
                      THEN set_status(ds, device_id, "online")
                      ELSE ds]
    ELSE [device_tasks |-> ts, devices |-> ds]

\* A task_complete message arrives in the message loop (lines 316, 329-333).
task_complete(c, task_id) ==
    LET device_id == ws_device_id(conn_port[c])
        r == complete_task_result(dm_devices, device_tasks, device_id, task_id)
    IN  /\ pc_conn[c] = "loop"
        /\ task_id \in in_flight[device_id]
        /\ device_tasks' = r.device_tasks
        /\ dm_devices' = r.devices
        /\ in_flight' = [in_flight EXCEPT ![device_id] = @ \ {task_id}]
        /\ ended' = ended \cup {task_id}
        /\ UNCHANGED <<connections, pc_conn, conn_port, conn_frp,
                       portVars, jobVars, listVars, scanVars>>

\* The connection drops: send_json or receive_json raises, and the finally
\* clause runs unregister_device(device_id) (lines 338-345, 164-177).
disconnected(c) ==
    LET device_id == ws_device_id(conn_port[c])
        r == unregister_result(dm_devices, connections, device_tasks, device_id)
    IN  /\ pc_conn[c] \in {"ack", "loop"}
        /\ connections' = r.connections
        /\ dm_devices' = r.devices
        /\ device_tasks' = r.device_tasks
        /\ pc_conn' = [pc_conn EXCEPT ![c] = "closed"]
        /\ UNCHANGED <<conn_port, conn_frp, in_flight, ended, portVars, jobVars, listVars, scanVars>>

\* assign_task(device_id, task_id) (lines 228-233).
dm_assign_task(device_id, task_id) ==
    /\ task_id \notin ended
    /\ \A d \in RegDeviceIds : task_id \notin in_flight[d]
    /\ IF device_id \in DOMAIN device_tasks
       THEN /\ device_tasks' = [device_tasks EXCEPT ![device_id] = @ \cup {task_id}]
            /\ dm_devices' = set_status(dm_devices, device_id, "busy")
            /\ in_flight' = [in_flight EXCEPT ![device_id] = @ \cup {task_id}]
       ELSE UNCHANGED <<device_tasks, dm_devices, in_flight>>
    /\ UNCHANGED <<connections, pc_conn, conn_port, conn_frp, ended,
                   portVars, jobVars, listVars, scanVars>>

RegNext ==
    \/ \E c \in Conns, p \in RegPorts : device_online(c, p)
    \/ \E c \in Conns, f \in BOOLEAN : register_device(c, f)
    \/ \E c \in Conns : registered_sent(c)
    \/ \E c \in Conns, k \in RegTasks : task_complete(c, k)
    \/ \E c \in Conns : disconnected(c)
    \/ \E d \in RegDeviceIds, k \in RegTasks : dm_assign_task(d, k)

Init == PortInit /\ JobInit /\ ListInit0 /\ ScanInit0 /\ RegInit0

RegSpec == Init /\ [][RegNext]_vars

ScanSpec == Init /\ [][ScanNext]_vars

\* The listing is called on any of the tables.
ListInit ==
    /\ PortInit
    /\ JobInit
    /\ ScanInit0
    /\ RegInit0
    /\ list_rows \in Tables
    /\ listing = NotListed

ListSpec == ListInit /\ [][call_list_tasks_from_db]_vars

\* The tasks created before task t.
Earlier(t) == {TaskOrder[i] : i \in {j \in 1..Len(TaskOrder) : \E k \in 1..Len(TaskOrder) :
                                        TaskOrder[k] = t /\ j < k}}

\* Mutation of create_after_persist: a failed insert is swallowed.
create_after_persist_swallowed(ok) == "persisted"

\* create_task line 524: the insert raises out of create_task, else the call goes on.
create_after_persist(ok) == IF ok THEN "persisted" ELSE "failed"

\* create_task, first part: build the Task and insert its row (in the executor).
create_task_persist(t, pin) ==
    /\ pc_create[t] = "idle"
    /\ inputs < MaxInputs
    /\ inputs' = inputs + 1
    /\ \A e \in Earlier(t) : pc_create[e] # "idle"
    /\ \E ok \in DbOutcomes :
          /\ CountFailure(ok)
          /\ pc_create' = [pc_create EXCEPT ![t] = create_after_persist(ok)]
          /\ task' = [task EXCEPT ![t] =
                         IF create_after_persist(ok) = "failed"
                         THEN NoTask
                         ELSE [NoTask EXCEPT !.status = "pending", !.device_id = pin]]
          /\ db' = IF ok
                   THEN [db EXCEPT ![t] = persist_task_to_db(db[t], task'[t])]
                   ELSE db
    /\ UNCHANGED <<running_tasks, handles, lock, pc_exec, pc_cancel, snap, ret_start,
                   ret_cancel, runVars, dev, restarts, cutoff, portVars, extVars>>

\* create_task, second part: under the lock, make the task visible; return its id.
create_task_insert(t) ==
    /\ pc_create[t] = "persisted"
    /\ lock = FreeLock
    /\ running_tasks' = running_tasks \cup {t}
    /\ pc_create' = [pc_create EXCEPT ![t] = "done"]
    /\ UNCHANGED <<task, db, handles, lock, pc_exec, pc_cancel, snap, ret_start, ret_cancel,
                   runVars, envVars, portVars, extVars>>

\* execute_task lines 586-614: mark RUNNING, write the status through, leave
\* the lock, create the asyncio task and keep its handle.
launch(t, d, pool) ==
    /\ task' = [task EXCEPT ![t].status = "running", ![t].device_id = d]
    /\ \E ok \in DbOutcomes :
          /\ CountFailure(ok)
          /\ db' = IF ok THEN [db EXCEPT ![t] = crud_update_status(db[t], "running")] ELSE db
    /\ dev' = pool
    /\ lock' = FreeLock
    /\ pc_exec' = [pc_exec EXCEPT ![t] = "idle"]
    /\ pc_run' = [pc_run EXCEPT ![t] = "created"]
    /\ must_cancel' = [must_cancel EXCEPT ![t] = FALSE]
    /\ step_index' = [step_index EXCEPT ![t] = 0]
    /\ handles' = handles \cup {t}
    /\ ret_start' = [ret_start EXCEPT ![t] = "true"]
    /\ UNCHANGED <<running_tasks, pc_create, pc_cancel, snap, ret_cancel, wk, restarts, cutoff,
                   portVars, extVars>>

\* Mutation of refuse_start: the refused job is marked FAILED.
refuse_start_failing(t) ==
    /\ ret_start' = [ret_start EXCEPT ![t] = "false"]
    /\ lock' = FreeLock
    /\ pc_exec' = [pc_exec EXCEPT ![t] = "idle"]
    /\ task' = [task EXCEPT ![t].status = "failed"]
    /\ UNCHANGED <<running_tasks, db, handles, pc_create, pc_cancel, snap, ret_cancel,
                   runVars, dev, db_failures, restarts, cutoff, portVars, extVars>>

\* execute_task returns False without having changed anything.
refuse_start(t) ==
    /\ ret_start' = [ret_start EXCEPT ![t] = "false"]
    /\ lock' = FreeLock
    /\ pc_exec' = [pc_exec EXCEPT ![t] = "idle"]
    /\ UNCHANGED <<task, running_tasks, db, handles, pc_create, pc_cancel, snap, ret_cancel,
                   runVars, dev, db_failures, restarts, cutoff, portVars, extVars>>

\* Mutation of startable: the status is not looked at.
startable_any_status(t) == t \in running_tasks

\* execute_task lines 561-568: the task is in running_tasks and PENDING.
startable(t) == t \in running_tasks /\ task[t].status = "pending"

\* execute_task up to its first suspension: take the lock, look the task up,
\* require PENDING; a pinned task is launched at once, an unpinned one waits
\* for the device pool while holding the lock.
execute_task(t) ==
    /\ pc_create[t] = "done"
    /\ pc_exec[t] = "idle"
    /\ lock = FreeLock
    /\ inputs < MaxInputs
    /\ inputs' = inputs + 1
    /\ IF ~startable(t)
       THEN refuse_start(t)
       ELSE IF task[t].device_id # NoDevice
            THEN launch(t, task[t].device_id, dev)
            ELSE /\ lock' = [op |-> "execute_task", t |-> t]
                 /\ pc_exec' = [pc_exec EXCEPT ![t] = "selecting"]
                 /\ UNCHANGED <<task, running_tasks, db, handles, pc_create, pc_cancel, snap,
                                ret_start, ret_cancel, runVars, dev, db_failures, restarts, cutoff,
                                portVars, extVars>>

\* execute_task lines 574-584: the pool answered; no device, no start.
execute_task_selected(t) ==
    /\ pc_exec[t] = "selecting"
    /\ UNCHANGED inputs
    /\ LET d == get_available_device(dev)
       IN  IF d = NoDevice
           THEN refuse_start(t)
           ELSE launch(t, d, assign_task(dev, d, t))

\* cancel_task lines 1361-1370: under the lock set CANCELLED and hand the
\* task to the persist thread.
cancel_mark(t) ==
    /\ task' = [task EXCEPT ![t].status = "cancelled", ![t].error = "Task cancelled by user"]
    /\ lock' = [op |-> "cancel_task", t |-> t]
    /\ pc_cancel' = [pc_cancel EXCEPT ![t] = "persist"]

\* cancel_task up to its first suspension: look the task up in the Hot Tier,
\* require PENDING or RUNNING, then take the lock (or wait for it).
cancel_task(t) ==
    /\ pc_create[t] = "done"
    /\ pc_cancel[t] = "idle"
    /\ inputs < MaxInputs
    /\ inputs' = inputs + 1
    /\ IF t \notin running_tasks \/ task[t].status \notin {"pending", "running"}
       THEN /\ ret_cancel' = [ret_cancel EXCEPT ![t] = "false"]
            /\ UNCHANGED <<task, lock, pc_cancel>>
       ELSE /\ ret_cancel' = [ret_cancel EXCEPT ![t] = "none"]
            /\ IF lock = FreeLock
               THEN cancel_mark(t)
               ELSE /\ pc_cancel' = [pc_cancel EXCEPT ![t] = "waitlock"]
                    /\ UNCHANGED <<task, lock>>
    /\ UNCHANGED <<running_tasks, db, handles, pc_create, pc_exec, snap, ret_start, runVars,
                   dev, db_failures, restarts, cutoff, portVars, extVars>>

\* cancel_task got the lock it was waiting for; the status is not looked at again.
cancel_task_locked(t) ==
    /\ pc_cancel[t] = "waitlock"
    /\ lock = FreeLock
    /\ cancel_mark(t)
    /\ UNCHANGED <<running_tasks, db, handles, pc_create, pc_exec, snap, ret_start, ret_cancel,
                   runVars, envVars, portVars, extVars>>

\* The persist thread evaluates the task's fields (_persist, lines 1541-1554).
cancel_persist_read(t) ==
    /\ pc_cancel[t] = "persist"
    /\ snap' = [snap EXCEPT ![t] = task[t]]
    /\ pc_cancel' = [pc_cancel EXCEPT ![t] = "snapped"]
    /\ UNCHANGED <<svcVars, pc_create, pc_exec, ret_start, ret_cancel, runVars, envVars,
                   portVars, extVars>>

\* The persist thread writes them; cancel_task logs a failed write and goes on.
cancel_persist_write(t) ==
    /\ pc_cancel[t] = "snapped"
    /\ \E ok \in DbOutcomes :
          /\ CountFailure(ok)
          /\ db' = IF ok /\ DbAccepts(snap[t])
                   THEN [db EXCEPT ![t] = persist_task_to_db(db[t], snap[t])]
                   ELSE db
    /\ snap' = [snap EXCEPT ![t] = NoTask]
    /\ pc_cancel' = [pc_cancel EXCEPT ![t] = "written"]
    /\ UNCHANGED <<task, running_tasks, handles, lock, pc_create, pc_exec, ret_start, ret_cancel,
                   runVars, dev, restarts, cutoff, inputs, portVars, extVars>>

\* cancel_task lines 1375-1404: cancel the asyncio handle, drop the task from
\* the Hot Tier, leave the lock, return True.  The event loop runs callbacks
\* in the order they were queued: the first run of a coroutine created by
\* execute_task precedes this resumption from the executor.
cancel_task_finish(t) ==
    /\ pc_cancel[t] = "written"
    /\ pc_run[t] # "created"
    /\ must_cancel' = [must_cancel EXCEPT ![t] = t \in handles /\ pc_run[t] \in Suspended]
    /\ running_tasks' = running_tasks \ {t}
    /\ lock' = FreeLock
    /\ pc_cancel' = [pc_cancel EXCEPT ![t] = "idle"]
    /\ ret_cancel' = [ret_cancel EXCEPT ![t] = "true"]
    /\ UNCHANGED <<task, db, handles, pc_create, pc_exec, snap, ret_start, pc_run, step_index,
                   wk, envVars, portVars, extVars>>

(***************************************************************************)
(* _run_agent                                                              *)
(***************************************************************************)
\* Mutation of finally_release: only a successful job releases its device.
finally_release_on_success(pool, tk) ==
    IF tk.status = "completed" THEN complete_task(pool, tk.device_id) ELSE pool

\* The end of the finally block (lines 1333-1337): whatever the status, the
\* task's device is handed back to the pool.
finally_release(pool, tk) ==
    IF tk.device_id # NoDevice THEN complete_task(pool, tk.device_id) ELSE pool

\* The finally block (lines 1297-1337): write the final record, keep a
\* terminal task in the Hot Tier, release the device.
run_finally(t, tk) ==
    /\ \E ok \in DbOutcomes :
          /\ CountFailure(ok)
          /\ db' = IF ok /\ DbAccepts(tk)
                   THEN [db EXCEPT ![t] = crud_update_task(db[t], tk)]
                   ELSE db
    /\ handles' = IF tk.status \in Terminal THEN handles ELSE handles \ {t}
    /\ dev' = finally_release(dev, tk)
    /\ pc_run' = [pc_run EXCEPT ![t] = "done"]
    /\ UNCHANGED <<restarts, cutoff, inputs>>

\* Lines 1200-1216: whatever ended the loop, the task is marked COMPLETED.
run_completed(tk, message) == [tk EXCEPT !.status = "completed", !.result = message]

\* Lines 1257-1263: an exception marks the task FAILED.
run_failed(tk, message) == [tk EXCEPT !.status = "failed", !.error = message]

\* Mutation of loop_top_pc: the loop does not look at the status.
loop_top_pc_unchecked(tk, i) ==
    IF i < MaxSteps THEN "await_step" ELSE "await_done_bcast"

\* The top of the execution loop (lines 1051-1074) for a task that is about
\* to run step i: the position the coroutine reaches next.
loop_top_pc(tk, i) ==
    IF i < MaxSteps /\ tk.status # "cancelled" THEN "await_step" ELSE "await_done_bcast"

\* ... and the task it leaves behind.
loop_top_task(tk, i) ==
    IF i >= MaxSteps
    THEN run_completed(tk, "Max steps reached")
    ELSE IF tk.status = "cancelled"
         THEN run_completed(tk, "Task cancelled by user")
         ELSE tk

\* The coroutine enters (or re-enters) the loop with step index i.
enter_loop(t, tk, i) ==
    /\ task' = [task EXCEPT ![t] = loop_top_task(tk, i)]
    /\ pc_run' = [pc_run EXCEPT ![t] = loop_top_pc(tk, i)]
    /\ step_index' = [step_index EXCEPT ![t] = i]
    /\ wk' = [wk EXCEPT ![t] = IF loop_top_pc(tk, i) = "await_step" THEN "running" ELSE "idle"]

\* First run of the coroutine: cancelled check (line 659), then the
\* preprocessing plan decides between the rule engine, a compound task, the
\* model configuration error and the execution loop.  A cancel_task that
\* the lock release of execute_task (line 560) has woken was queued before
\* the coroutine was created (line 607) and takes the lock first.
run_agent_start(t) ==
    /\ pc_run[t] = "created"
    /\ ~(pc_cancel[t] = "waitlock" /\ lock = FreeLock)
    /\ \/ /\ task[t].status = "cancelled"
          /\ run_finally(t, task[t])
          /\ UNCHANGED <<task, must_cancel, step_index, wk>>
       \/ /\ task[t].status # "cancelled"
          /\ \/ /\ enter_loop(t, task[t], 0)
                /\ UNCHANGED <<db, handles, must_cancel, envVars>>
             \/ /\ \E p \in {"await_rule_bcast", "await_compound_bcast"} :
                      pc_run' = [pc_run EXCEPT ![t] = p]
                /\ task' = [task EXCEPT ![t].steps = Append(@, 0)]
                /\ UNCHANGED <<db, handles, must_cancel, step_index, wk, envVars>>
             \/ /\ task' = [task EXCEPT ![t] = run_failed(@, "no api key")]
                /\ pc_run' = [pc_run EXCEPT ![t] = "await_done_bcast"]
                /\ UNCHANGED <<db, handles, must_cancel, step_index, wk, envVars>>
    /\ UNCHANGED <<running_tasks, lock, callVars, portVars, extVars>>

\* Rule-engine path after its broadcast (lines 732-761): COMPLETED with a dict
\* result, then self._save_task_result does not exist and the AttributeError
\* marks the task FAILED.
run_agent_after_rule(t) ==
    /\ pc_run[t] = "await_rule_bcast"
    /\ ~must_cancel[t]
    /\ task' = [task EXCEPT ![t] =
                   run_failed(run_completed(@, "dict"), "no attribute _save_task_result")]
    /\ pc_run' = [pc_run EXCEPT ![t] = "await_done_bcast"]
    /\ UNCHANGED <<running_tasks, db, handles, lock, callVars, must_cancel, step_index, wk,
                   envVars, portVars, extVars>>

\* Compound task after its broadcast (lines 828-836): on to the loop.
run_agent_after_compound(t) ==
    /\ pc_run[t] = "await_compound_bcast"
    /\ ~must_cancel[t]
    /\ enter_loop(t, task[t], 0)
    /\ UNCHANGED <<running_tasks, db, handles, lock, callVars, must_cancel, envVars, portVars, extVars>>

\* What agent.step hands to the loop for a unit that ended with outcome.
\* The Worker's own error handling returns StepResult(success=False,
\* finished=True) (agent.py lines 310-321, 436-453).  A unit whose action
\* was executed goes through line 570, which passes on_step_complete a
\* keyword (action=) that AsyncStepCallback.on_step_complete does not take:
\* the TypeError leaves agent.step instead of the StepResult.
step_result(outcome) ==
    IF outcome = "error_final" THEN "fail_final" ELSE "raise"

\* agent.step returned or raised (lines 1071-1123): a raise goes to the
\* except block, a result is appended to the step log.
run_agent_after_step(t) ==
    /\ pc_run[t] = "await_step"
    /\ ~must_cancel[t]
    /\ wk[t] \in StepOutcomes
    /\ IF step_result(wk[t]) = "raise"
       THEN /\ task' = [task EXCEPT ![t] = run_failed(@, "worker error")]
            /\ pc_run' = [pc_run EXCEPT ![t] = "await_done_bcast"]
       ELSE /\ task' = [task EXCEPT ![t].steps = Append(@, step_index[t])]
            /\ pc_run' = [pc_run EXCEPT ![t] = "await_bcast"]
    /\ UNCHANGED wk
    /\ UNCHANGED <<running_tasks, db, handles, lock, callVars, must_cancel, step_index,
                   envVars, portVars, extVars>>

\* After the step broadcast (lines 1152-1198): a final step ends the loop,
\* any other goes back to the top of the loop.
run_agent_after_broadcast(t) ==
    /\ pc_run[t] = "await_bcast"
    /\ ~must_cancel[t]
    /\ IF step_result(wk[t]) \in {"ok_final", "fail_final"}
       THEN /\ task' = [task EXCEPT ![t] = run_completed(@, "Task completed")]
            /\ pc_run' = [pc_run EXCEPT ![t] = "await_done_bcast"]
            /\ UNCHANGED <<step_index, wk>>
       ELSE enter_loop(t, task[t], step_index[t] + 1)
    /\ UNCHANGED <<running_tasks, db, handles, lock, callVars, must_cancel, envVars, portVars, extVars>>

\* After the status broadcast the coroutine falls into the finally block.
run_agent_finish(t) ==
    /\ pc_run[t] = "await_done_bcast"
    /\ ~must_cancel[t]
    /\ run_finally(t, task[t])
    /\ UNCHANGED <<task, running_tasks, lock, callVars, must_cancel, step_index, wk, portVars, extVars>>

\* CancelledError is raised at the await the coroutine is suspended on; it is
\* not an Exception, so only the finally block runs.
run_agent_cancelled(t) ==
    /\ pc_run[t] \in Suspended
    /\ must_cancel[t]
    /\ must_cancel' = [must_cancel EXCEPT ![t] = FALSE]
    /\ run_finally(t, task[t])
    /\ UNCHANGED <<task, running_tasks, lock, callVars, step_index, wk, portVars, extVars>>

(***************************************************************************)
(* The executor thread running agent.step                                  *)
(***************************************************************************)
\* AgentCallback.on_step_start (lines 163-194), called by the Worker from its
\* thread: a cancelled task makes it raise, which the Worker turns into a
\* final failed step; otherwise a step entry is appended.
on_step_start(t) ==
    /\ wk[t] = "running"
    /\ IF task[t].status = "cancelled"
       THEN /\ wk' = [wk EXCEPT ![t] = IF pc_run[t] = "await_step" THEN "error_final" ELSE "idle"]
            /\ UNCHANGED task
       ELSE /\ wk' = [wk EXCEPT ![t] = "started"]
            /\ task' = [task EXCEPT ![t].steps = Append(@, step_index[t] + 1)]
    /\ UNCHANGED <<running_tasks, db, handles, lock, callVars, pc_run, must_cancel, step_index,
                   envVars, portVars, extVars>>

\* The unit ends: before the callback only in the Worker's error handling
\* (no screenshot), after it with any outcome.  Nobody reads the outcome of
\* an abandoned step.
worker_return(t, outcome) ==
    /\ wk[t] \in {"running", "started"}
    /\ wk[t] = "running" => outcome = "error_final"
    /\ inputs < MaxInputs
    /\ inputs' = inputs + 1
    /\ wk' = [wk EXCEPT ![t] = IF pc_run[t] = "await_step" THEN outcome ELSE "idle"]
    /\ UNCHANGED <<svcVars, callVars, pc_run, must_cancel, step_index, dev, db_failures,
                   restarts, cutoff, portVars, extVars>>

(***************************************************************************)
(* Environment                                                             *)
(***************************************************************************)
\* The sets of rows that can lie before the one-hour cutoff of a
\* recover_tasks pass: with a row every row created before it, and every row
\* that lay before the cutoff of the previous pass.
StaleSets ==
    {S \in SUBSET {t \in TaskIds : db[t].status # "absent"} :
        /\ cutoff \subseteq S
        /\ \A t \in S : \A e \in Earlier(t) : db[e].status # "absent" => e \in S}

\* The tasks created after task t.
Later(t) == {e \in TaskIds : t \in Earlier(e)}

\* crud.list_tasks(db, status): the rows of that status, newest first, cut
\* at the default limit.
crud_list_tasks(d, status) ==
    {t \in TaskIds : /\ d[t].status = status
                     /\ Cardinality({e \in Later(t) : d[e].status = status}) < ListLimit}

\* recover_tasks: the listed running rows are failed as orphans, then the
\* listed pending rows created before the cutoff as timed out.
recover_tasks(d, before) ==
    [t \in TaskIds |-> IF t \in crud_list_tasks(d, "running") \cup crud_list_tasks(d, "pending")
                       THEN recover_task(d[t], t \in before)
                       ELSE d[t]]

\* The process dies and starts again: memory is lost, AgentService.__init__
\* runs recover_tasks, the device pool is rebuilt from discovery.
restart ==
    /\ inputs < MaxInputs
    /\ inputs' = inputs + 1
    /\ restarts' = restarts + 1
    /\ \E before \in StaleSets :
          /\ cutoff' = before
          /\ db' = recover_tasks(db, before)
    /\ task' = [t \in TaskIds |-> NoTask]
    /\ running_tasks' = {}
    /\ handles' = {}
    /\ lock' = FreeLock
    /\ pc_create' = [t \in TaskIds |-> IF pc_create[t] = "persisted" THEN "failed"
                                       ELSE pc_create[t]]
    /\ pc_exec' = [t \in TaskIds |-> "idle"]
    /\ pc_cancel' = [t \in TaskIds |-> "idle"]
    /\ snap' = [t \in TaskIds |-> NoTask]
    /\ pc_run' = [t \in TaskIds |-> "none"]
    /\ must_cancel' = [t \in TaskIds |-> FALSE]
    /\ step_index' = [t \in TaskIds |-> 0]
    /\ wk' = [t \in TaskIds |-> "idle"]
    /\ dev' \in DiscoveredPools
    /\ UNCHANGED <<ret_start, ret_cancel, db_failures, portVars, extVars>>

Next ==
    \/ \E t \in TaskIds, pin \in Pins : create_task_persist(t, pin)
    \/ \E t \in TaskIds : create_task_insert(t)
    \/ \E t \in TaskIds : execute_task(t)
    \/ \E t \in TaskIds : execute_task_selected(t)
    \/ \E t \in TaskIds : cancel_task(t)
    \/ \E t \in TaskIds : cancel_task_locked(t)
    \/ \E t \in TaskIds : cancel_persist_read(t)
    \/ \E t \in TaskIds : cancel_persist_write(t)
    \/ \E t \in TaskIds : cancel_task_finish(t)
    \/ \E t \in TaskIds : run_agent_start(t)
    \/ \E t \in TaskIds : run_agent_after_rule(t)
    \/ \E t \in TaskIds : run_agent_after_compound(t)
    \/ \E t \in TaskIds : run_agent_after_step(t)
    \/ \E t \in TaskIds : run_agent_after_broadcast(t)
    \/ \E t \in TaskIds : run_agent_finish(t)
    \/ \E t \in TaskIds : run_agent_cancelled(t)
    \/ \E t \in TaskIds : on_step_start(t)
    \/ \E t \in TaskIds, o \in StepOutcomes : worker_return(t, o)
    \/ restart

Spec == Init /\ [][Next]_vars

\* The steps of the execution coroutine of task t.
RunStep(t) ==
    \/ run_agent_start(t)
    \/ run_agent_after_rule(t)
    \/ run_agent_after_compound(t)
    \/ run_agent_after_step(t)
    \/ run_agent_after_broadcast(t)
    \/ run_agent_finish(t)
    \/ run_agent_cancelled(t)

\* The steps of a cancel_task call on task t after its first suspension.
CancelStep(t) ==
    \/ cancel_task_locked(t)
    \/ cancel_persist_read(t)
    \/ cancel_persist_write(t)
    \/ cancel_task_finish(t)

\* The behaviours with at most LiveInputs environment inputs.
LiveNext ==
    \/ \E t \in TaskIds, pin \in Pins :
          inputs < LiveInputs /\ create_task_persist(t, pin)
    \/ \E t \in TaskIds : create_task_insert(t)
    \/ \E t \in TaskIds : inputs < LiveInputs /\ execute_task(t)
    \/ \E t \in TaskIds : execute_task_selected(t)
    \/ \E t \in TaskIds : inputs < LiveInputs /\ cancel_task(t)
    \/ \E t \in TaskIds : CancelStep(t)
    \/ \E t \in TaskIds : RunStep(t)
    \/ \E t \in TaskIds : on_step_start(t)
    \/ \E t \in TaskIds, o \in StepOutcomes : inputs < LiveInputs /\ worker_return(t, o)
    \/ inputs < LiveInputs /\ restart

\* The event loop resumes every coroutine that is ready, and the executor
\* threads of _persist_task_to_db end.
LiveSpec ==
    /\ Init
    /\ [][LiveNext]_vars
    /\ \A t \in TaskIds : WF_vars(RunStep(t)) /\ WF_vars(CancelStep(t))

\* The awaits of _run_agent on the broadcast callback (lines 706-731,
\* 807-826, 1126-1150, 1218-1239): ConnectionManager.broadcast awaits
\* send_json for one observer after the other, without a timeout.
NotifyAwaits == {"await_rule_bcast", "await_compound_bcast", "await_bcast", "await_done_bcast"}

\* The steps of the coroutine of task t that do not resume from a broadcast.
RunStepNoNotify(t) ==
    \/ run_agent_start(t)
    \/ run_agent_after_step(t)
    \/ run_agent_cancelled(t)

\* As LiveSpec, but a coroutine awaiting the broadcast callback is resumed
\* only when every observer has taken the message, which an observer that
\* never finishes receiving does not let happen.
NotifySpec ==
    /\ Init
    /\ [][LiveNext]_vars
    /\ \A t \in TaskIds : WF_vars(RunStepNoNotify(t)) /\ WF_vars(CancelStep(t))

PortNext ==
    \/ \E d \in LeaseDevices, p \in Ports, f \in BOOLEAN : allocate_port(d, p, f)
    \/ \E d \in LeaseDevices \cup {NoDevice}, p \in Ports \cup {NoPort} : release_port(d, p)
    \/ \E a \in MaxAges : cleanup_stale_allocations(a)
    \/ Tick

PortSpec == Init /\ [][PortNext]_vars

(***************************************************************************)
(* Port allocator properties                                               *)
(***************************************************************************)
\* The ports whose allocation names the device.
PortsOf(pa, device_id) == {p \in DOMAIN pa : pa[p].device_id = device_id}

\* C3: No-double-lease. After any sequence of allocate_port, release_port and
\* cleanup_stale_allocations the two lookups are inverses of each other:
\* get_device_port(d) returns p exactly when get_port_status(p) returns d.
C3_NoDoubleLease ==
    \A d \in LeaseDevices, p \in Ports :
        (get_device_port(d) = p) <=> (get_port_status(p) = d)

\* A sweep released a lease and left at least one other lease in place.
C3_Witness ==
    /\ last_call.op = "cleanup"
    /\ DOMAIN last_call.pre_pa # DOMAIN port_allocations
    /\ port_allocations # <<>>

\* C4: A refused allocate_port (the port is leased to another device and
\* force is false) leaves both tables exactly as they were before the call.
C4_RefusedAcquireChangesNothing ==
    (last_call.op = "allocate" /\ ~last_call.ok)
        => /\ port_allocations = last_call.pre_pa
           /\ device_ports = last_call.pre_dp

\* C5: Single-lease-per-device. No device is named by more than one
\* allocation, and a successful allocate_port(A, p2) while A held p1 # p2
\* leaves p1 unleased and p2 leased to A.
C5_SingleLeasePerDevice ==
    /\ \A d \in LeaseDevices : Cardinality(PortsOf(port_allocations, d)) <= 1
    /\ (/\ last_call.op = "allocate"
        /\ last_call.ok
        /\ last_call.device \in DOMAIN last_call.pre_dp
        /\ last_call.pre_dp[last_call.device] # last_call.port)
          => /\ get_port_status(last_call.pre_dp[last_call.device]) = NoDevice
             /\ get_port_status(last_call.port) = last_call.device
             /\ get_device_port(last_call.device) = last_call.port

\* A device moved from one port to another, free, port.
C5_Witness ==
    /\ last_call.op = "allocate"
    /\ last_call.ok
    /\ last_call.device \in DOMAIN last_call.pre_dp
    /\ last_call.pre_dp[last_call.device] # last_call.port
    /\ last_call.port \notin DOMAIN last_call.pre_pa

\* The call was allocate_port(B, port, force=True) on a port leased to another device.
IsTakeover(c) ==
    /\ c.op = "allocate"
    /\ c.force
    /\ c.port \in DOMAIN c.pre_pa
    /\ c.pre_pa[c.port].device_id # c.device

\* C6: Forced takeover. allocate_port(B, port, force=True) on a port leased
\* to a different device A succeeds; the port then belongs to B, A holds no
\* lease in either table, and the leases of third devices are unchanged.
C6_ForcedTakeover ==
    IsTakeover(last_call) =>
        LET A == last_call.pre_pa[last_call.port].device_id
            B == last_call.device
        IN  /\ last_call.ok
            /\ get_port_status(last_call.port) = B
            /\ get_device_port(B) = last_call.port
            /\ get_device_port(A) = NoPort
            /\ PortsOf(port_allocations, A) = {}
            /\ \A q \in DOMAIN last_call.pre_pa :
                  (last_call.pre_pa[q].device_id \notin {A, B})
                      => /\ q \in DOMAIN port_allocations
                         /\ port_allocations[q] = last_call.pre_pa[q]
                         /\ get_device_port(last_call.pre_pa[q].device_id) = q

\* B took A's port over while B held another port and a third device held a lease.
C6_Witness ==
    /\ IsTakeover(last_call)
    /\ last_call.device \in DOMAIN last_call.pre_dp
    /\ \E q \in DOMAIN port_allocations :
          port_allocations[q].device_id
              \notin {last_call.device, last_call.pre_pa[last_call.port].device_id}

\* The port a release_port call is aimed at, given the tables before it.
ReleaseTarget(c) ==
    IF c.device # NoDevice
    THEN IF c.device \in DOMAIN c.pre_dp THEN c.pre_dp[c.device] ELSE NoPort
    ELSE c.port

\* C7: Release is idempotent. release_port returns true exactly when the
\* device (or port) held a lease, and then removes exactly that lease; a
\* release of nothing, in particular the immediate repetition of a
\* successful release, returns false and leaves both tables unchanged.
C7_ReleaseIdempotent ==
    (last_call.op = "release") =>
        LET target == ReleaseTarget(last_call)
            held == target \in DOMAIN last_call.pre_pa
        IN  /\ last_call.ok = held
            /\ held => /\ port_allocations = DictDel(last_call.pre_pa, target)
                       /\ device_ports =
                             DictDel(last_call.pre_dp, last_call.pre_pa[target].device_id)
            /\ ~held => /\ port_allocations = last_call.pre_pa
                        /\ device_ports = last_call.pre_dp
            /\ (last_call.again /\ last_call.prev_ok)
                  => /\ ~last_call.ok
                     /\ port_allocations = last_call.pre_pa
                     /\ device_ports = last_call.pre_dp

\* release_port(device) succeeded and was immediately repeated while other leases exist.
C7_Witness ==
    /\ last_call.op = "release"
    /\ last_call.device # NoDevice
    /\ last_call.again
    /\ last_call.prev_ok
    /\ ~last_call.ok
    /\ port_allocations # <<>>

(***************************************************************************)
(* Job store and scheduler properties                                      *)
(***************************************************************************)
\* The jobs that are Running on device d.
RunningOn(d) == {t \in TaskIds : task[t].status = "running" /\ task[t].device_id = d}

\* C1: Binding exclusivity. After any sequence of create_task, execute_task,
\* cancel_task and job completions no device is bound to more than one
\* Running job at the same time.
C1_BindingExclusivity ==
    \A d \in PoolDevices : Cardinality(RunningOn(d)) <= 1

\* C2: Cancellation is terminal and first-wins. Once cancel_task has set the
\* status of a started job to Cancelled, the status stays Cancelled in the
\* Task object and in the database row, whatever the execution thread does next.
C2_CancellationTerminal ==
    [][\A t \in TaskIds :
          (restarts' = restarts /\ pc_run[t] # "none")
              => /\ (task[t].status = "cancelled") => (task'[t].status = "cancelled")
                 /\ (db[t].status = "cancelled") => (db'[t].status = "cancelled")]_vars

\* C8: Write-through Create. Every job in the Hot Tier has a row in the
\* Durable Tier, a failed insert leaves the job out of the Hot Tier, and a
\* job whose create_task returned is found by get_task_async, also after a restart.
C8_WriteThroughCreate ==
    /\ \A t \in running_tasks : db[t].status # "absent"
    /\ \A t \in TaskIds : (pc_create[t] = "failed") => (t \notin running_tasks)
    /\ \A t \in TaskIds : (pc_create[t] = "done") => (get_task_async(t) # NoTask)

\* One create_task failed on its insert, another returned, and after a
\* restart the latter is answered from the Durable Tier.
C8_Witness ==
    /\ restarts > 0
    /\ \E t \in TaskIds : pc_create[t] = "failed" /\ db[t].status = "absent"
    /\ \E t \in TaskIds :
          /\ pc_create[t] = "done"
          /\ t \notin running_tasks
          /\ get_task_async(t).status \in {"pending", "failed"}

\* The fields of a job record the tiers must agree on.
FinalRecord(tk) ==
    [status |-> tk.status, result |-> tk.result, error |-> tk.error, steps |-> tk.steps]

\* C9: Tier transparency. Once a job is terminal, its execution thread has
\* finished and it has left the Hot Tier, get_task_async answers from the
\* Durable Tier with the status, result, error and step log of the job's
\* final Task object.
C9_TierTransparency ==
    \A t \in TaskIds :
        (/\ task[t].status \in Terminal
         /\ pc_run[t] = "done"
         /\ pc_cancel[t] = "idle"
         /\ t \notin running_tasks)
            => FinalRecord(get_task_async(t)) = FinalRecord(task[t])

\* C10: The Hot Tier holds only Pending or Running jobs. Once a job is
\* Completed, Failed or Cancelled and its execution thread has finished (and
\* no cancel_task call on it is still under way), it is not in the Hot Tier
\* and list_tasks does not return it, while get_task_async still returns it.
C10_HotTierOnlyActive ==
    \A t \in TaskIds :
        (task[t].status \in Terminal /\ pc_run[t] = "done" /\ pc_cancel[t] = "idle")
            => /\ t \notin list_tasks
               /\ get_task_async(t) # NoTask

\* The diagnostics recover_tasks attaches.
OrphanDiagnostic == "Task flow interrupted (server restart)"
StaleDiagnostic == "Task timeout (stale pending)"

\* C11: Recovery completeness. After one recover_tasks pass no row is
\* running, every row that was running is failed with the orphan diagnostic
\* and every row that was pending and created before the cutoff is failed
\* with the stale-pending diagnostic; none is skipped.
C11_RecoveryCompleteness ==
    [][(restarts' # restarts) =>
          \A t \in TaskIds :
              /\ db'[t].status # "running"
              /\ (db[t].status = "running")
                    => (db'[t].status = "failed" /\ db'[t].error = OrphanDiagnostic)
              /\ (db[t].status = "pending" /\ t \in cutoff')
                    => (db'[t].status = "failed" /\ db'[t].error = StaleDiagnostic)]_vars

\* C12: Recovery idempotence. A recover_tasks pass that follows another one
\* with nothing in between and the same cutoff changes no row.
C12_RecoveryIdempotence ==
    [][(/\ restarts' # restarts
        /\ restarts > 0
        /\ \A t \in TaskIds : task[t] = NoTask
        /\ cutoff' = cutoff) => (db' = db)]_vars

\* C13: End-to-end step accounting. A job whose Worker ends its N-th
\* progress unit as a final success, with no cancel_task call on the job,
\* ends Completed, is bound to no device any more, and get_task_async returns
\* it with a step log of exactly N entries.
C13_StepAccounting ==
    \A t \in TaskIds :
        (/\ pc_run[t] = "done"
         /\ wk[t] = "ok_final"
         /\ pc_cancel[t] = "idle"
         /\ ret_cancel[t] = "none")
            => /\ task[t].status = "completed"
               /\ \A d \in PoolDevices : dev[d].task # t
               /\ Len(get_task_async(t).steps) = step_index[t] + 1

\* The device pool has bound a device to task t.
Bound(t) == \E d \in PoolDevices : dev[d].task = t

C15_StatusMonotonic ==
    [][\A t \in TaskIds :
          (task[t] # NoTask /\ task[t].status \in {"completed", "failed"} /\ restarts' = restarts)
              => /\ task'[t] # NoTask
                 /\ task'[t].status = task[t].status
                 /\ pc_cancel[t] = "idle" => /\ pc_cancel'[t] = "idle"
                                             /\ ret_cancel'[t] \in {ret_cancel[t], "false"}]_vars

\* C16: NoDeviceAvailable is fail-fast and free of side effects. When the
\* pool has no free Online device for an unpinned Pending job, Start returns
\* failure, the job stays Pending in memory and in the database, no device
\* changes and no coroutine is created.
C16_NoDeviceFailFast ==
    [][\A t \in TaskIds :
          (/\ pc_exec[t] = "selecting"
           /\ get_available_device(dev) = NoDevice
           /\ pc_exec'[t] = "idle"
           /\ restarts' = restarts)
              => /\ ret_start'[t] = "false"
                 /\ task[t].status = "pending" /\ task'[t] = task[t]
                 /\ db[t].status = "pending" /\ db'[t] = db[t]
                 /\ t \in running_tasks'
                 /\ dev' = dev
                 /\ pc_run'[t] = "none" /\ t \notin handles']_vars

\* An unpinned job still Pending in memory whose Start was refused while no
\* device of the pool is free.
C16_Witness ==
    \E t \in TaskIds :
        /\ ret_start[t] = "false"
        /\ pc_exec[t] = "idle"
        /\ t \in running_tasks
        /\ task[t].status = "pending"
        /\ task[t].device_id = NoDevice
        /\ get_available_device(dev) = NoDevice
        /\ \E d \in PoolDevices : dev[d].status = "busy"

\* C17: WorkerFailure ends in Failed. A job whose execution ended because
\* the Worker returned a final step without success, or raised, and on which
\* Cancel was never called, is Failed with a diagnostic in memory and in the
\* database; it is not Completed.
C17_WorkerFailure ==
    \A t \in TaskIds :
        (/\ pc_run[t] = "done"
         /\ wk[t] \in StepOutcomes
         /\ pc_cancel[t] = "idle" /\ ret_cancel[t] = "none")
            => /\ task[t].status = "failed" /\ task[t].error # "none"
               /\ db[t].status = "failed" /\ db[t].error # "none"

\* C18: Status transitions are flushed synchronously. When execute_task
\* returns True the row of the job says running, and when cancel_task returns
\* True the row says cancelled, also when the write of that call raised.
C18_SynchronousFlush ==
    [][\A t \in TaskIds :
          /\ (pc_run[t] # "created" /\ pc_run'[t] = "created" /\ ret_start'[t] = "true")
                => db'[t].status = "running"
          /\ (pc_cancel[t] = "written" /\ pc_cancel'[t] = "idle" /\ ret_cancel'[t] = "true")
                => db'[t].status = "cancelled"]_vars

\* C19: Eviction only after a durable terminal flush. A step of the service
\* that removes a job from running_tasks finds the job terminal and its row
\* holding that same terminal status.
C19_EvictionAfterFlush ==
    [][\A t \in TaskIds :
          (t \in running_tasks /\ t \notin running_tasks' /\ restarts' = restarts)
              => /\ task[t].status \in Terminal
                 /\ db[t].status = task[t].status]_vars

\* The leases the sweep has to release at time t: those neither allocated
\* nor confirmed by their holder within max_age.
ConfirmedAt(p) == IF fresh = p THEN now ELSE port_allocations[p].allocated_at

Unconfirmed(max_age, t) == {p \in DOMAIN port_allocations : t - ConfirmedAt(p) > max_age}

\* C20: SweepStale releases exactly the stale leases. After
\* cleanup_stale_allocations(max_age) every lease whose age since its
\* allocation or its last confirming re-acquire exceeds max_age is gone from
\* both lookups and every other lease is unchanged.
C20_SweepExactlyStale ==
    [][\A max_age \in MaxAges :
          cleanup_stale_allocations(max_age)
              => /\ port_allocations' =
                        [p \in DOMAIN port_allocations \ Unconfirmed(max_age, now)
                            |-> port_allocations[p]]
                 /\ device_ports' =
                        [d \in {e \in DOMAIN device_ports :
                                    device_ports[e] \notin Unconfirmed(max_age, now)}
                            |-> device_ports[d]]]_vars

\* cancel_task has set the status of task t to CANCELLED.
CancelMarked(t) ==
    \/ task[t].status = "cancelled"
    \/ pc_cancel[t] \in {"persist", "snapped", "written"}
    \/ ret_cancel[t] = "true"

\* C26: Cancellation stops the loop at the next checkpoint. Once cancel_task
\* has marked a job, no step starts a new Worker unit for it; a unit that was
\* running may still end.
C26_CancelStopsLoop ==
    [][\A t \in TaskIds : (CancelMarked(t) /\ wk'[t] = "running") => wk[t] = "running"]_vars

\* The loop met the mark at its checkpoint after the compound pre-step and
\* ended without having started a Worker unit.
C26_Witness ==
    \E t \in TaskIds :
        /\ task[t].result = "Task cancelled by user"
        /\ task[t].steps # <<>>
        /\ wk[t] = "idle"
        /\ pc_run[t] = "await_done_bcast"

\* C27: No blocking I/O inside the exclusive sections. Whenever the service
\* lock is held, its holder is not waiting for the device pool and not
\* waiting for a database write.
C27_NoBlockingUnderLock ==
    \A t \in TaskIds :
        lock.t = t => /\ ~(lock.op = "execute_task" /\ pc_exec[t] = "selecting")
                      /\ ~(lock.op = "cancel_task" /\ pc_cancel[t] \in {"persist", "snapped"})

\* C30: A job is started at most once. A coroutine is created only for a
\* Pending job of the Hot Tier that has none yet, by an execute_task that
\* returns True; execute_task on any other job returns False and changes no
\* job and no device.
C30_StartAtMostOnce ==
    [][\A t \in TaskIds :
          /\ (pc_run'[t] = "created" /\ pc_run[t] # "created")
                => /\ pc_run[t] = "none"
                   /\ t \in running_tasks /\ task[t].status = "pending"
                   /\ ret_start'[t] = "true"
          /\ (execute_task(t) /\ (t \notin running_tasks \/ task[t].status # "pending"))
                => /\ ret_start'[t] = "false"
                   /\ task' = task /\ db' = db /\ dev' = dev
                   /\ pc_run' = pc_run /\ handles' = handles]_vars

\* execute_task was refused for a job that is Running with its coroutine.
C30_Witness ==
    \E t \in TaskIds :
        /\ ret_start[t] = "false"
        /\ task[t].status = "running"
        /\ pc_run[t] \notin {"none", "done"}

\* The sequence numbers of a step log grow strictly from entry to entry.
Increasing(steps) == \A i \in 1..Len(steps) : \A j \in 1..Len(steps) : i < j => steps[i] < steps[j]

\* C29: Within each job the step log is append-only and its entries carry
\* strictly increasing sequence numbers in log order, whichever path appended
\* them.
C29_StepLogOrdered ==
    [][\A t \in TaskIds :
          (task[t] # NoTask /\ task'[t] # NoTask)
              => /\ Len(task'[t].steps) >= Len(task[t].steps)
                 /\ SubSeq(task'[t].steps, 1, Len(task[t].steps)) = task[t].steps
                 /\ Increasing(task'[t].steps)]_vars

\* C28: Progress notifications never block execution. A coroutine that is
\* sending a notification goes on to its next Worker unit or to its end,
\* whatever the observers do.
C28_NotifyNeverBlocks ==
    \A t \in TaskIds : (pc_run[t] \in NotifyAwaits) ~> (pc_run[t] \notin NotifyAwaits)

\* What the listing owes for one row: the record of the row, with None and
\* [] for text that is not JSON and Failed for an unknown status.
ExpectedTask(row) ==
    [status |-> IF row.status \in {"pending", "running", "completed", "failed", "cancelled"}
                THEN row.status ELSE "failed",
     model_config |-> IF row.model_config = "valid" THEN "parsed" ELSE "None",
     steps |-> IF row.steps_detail = "valid" THEN "parsed" ELSE "[]"]

\* C21: Listing historical jobs tolerates malformed records. The listing
\* returns one job per row; invalid JSON gives model_config None and no
\* steps, an unknown status gives Failed, and the other rows are not lost.
C21_ListingTolerant ==
    listing # NotListed =>
        /\ listing.outcome = "returned"
        /\ Len(listing.tasks) = Len(list_rows)
        /\ \A i \in 1..Len(list_rows) : listing.tasks[i] = ExpectedTask(list_rows[i])

\* C22: After every completed scan pass every device the Active Scanner lists
\* as Online holds the lease on its own port, and a device it marked Offline
\* holds no lease, whatever the devices did in the passes before.
C22_OnlineHoldsLease ==
    scanning = NotScanning =>
        \A d \in DOMAIN devices :
            IF devices[d].is_online
            THEN get_port_status(devices[d].frp_port) = d
            ELSE get_device_port(d) = NoPort

\* C23: A lease refused on first sighting keeps the device out of the
\* registry, leaves the lease table as it was, and the port is not asked for
\* again in the same pass.
C23_RefusedLeaseKeepsOut ==
    \A i \in DOMAIN scan_log :
        ~scan_log[i].ok =>
            /\ scan_log[i].device_id \notin DOMAIN devices
            /\ scan_log[i].device_id \notin get_online_devices
            /\ scan_log[i].unchanged
            /\ \A j \in DOMAIN scan_log : scan_log[j].port = scan_log[i].port => j = i

C23_Witness ==
    /\ scanning = NotScanning
    /\ \E i \in DOMAIN scan_log :
          /\ ~scan_log[i].ok
          /\ get_port_status(scan_log[i].port) \in ForeignDevices
    /\ get_online_devices # {}

\* No connection handler is between two of its steps.
Quiescent == \A c \in Conns : pc_conn[c] \in {"new", "loop", "closed"}

\* A connection that announced device_id is open.
OpenFor(device_id) ==
    \E c \in Conns : pc_conn[c] = "loop" /\ ws_device_id(conn_port[c]) = device_id

\* C24: Whenever no connection handler is mid-step, a device's record is live
\* (not offline) and in the connection table exactly when some connection
\* that announced its identity is still open.
C24_LivenessFollowsConnection ==
    Quiescent =>
        \A d \in RegDeviceIds :
            (status_of(dm_devices, d) \in {"online", "busy"} /\ d \in DOMAIN connections)
                <=> OpenFor(d)

\* C25: dm_get_available_device never returns a device that has a task which
\* assign_task gave it and complete_task has not ended.
C25_AvailableHasNoTask ==
    dm_get_available_device # NoDevice => in_flight[dm_get_available_device] = {}

====
